---- MODULE Spec2Model ----
(***************************************************************************)
(* penko-tune: the audio signal graph of the player (App component) and    *)
(* the animation scheduler of the Visualizer component.                    *)
(*                                                                         *)
(* Gains are in dB.  The slider of the equalizer moves in steps of 0.5 dB  *)
(* and the presets are whole dB; such values are exact in the float32 of   *)
(* an AudioParam, so writing a gain and reading it back is modelled on     *)
(* integers (whole dB).                                                    *)
(***************************************************************************)
EXTENDS Integers, Sequences, FiniteSets, TLC

(* ---------------------------------------------------------------------- *)
(* Bounds of the model                                                     *)
(* ---------------------------------------------------------------------- *)
MaxToggles == 2
MaxEqOps == 2
MaxFrames == 3
MaxEffectRuns == 3
MaxDecayTicks == 20
MaxLibEdits == 2
MaxTime == 3
MaxTimers == 3

(* ---------------------------------------------------------------------- *)
(* Program constants                                                       *)
(* ---------------------------------------------------------------------- *)
NumBands == 10
SliderMin == -12
SliderMax == 12

Bands == 0 .. (NumBands - 1)

\* gains a caller of handleEQChange may ask for (in and out of the slider range)
RequestGains == {-12, 20}
\* stereo sample values fed through the graph
Samples == -2 .. 2

VARIABLES
    audioContext,   \* audioContextRef.current: "none", or the context's state
    nodeCount,      \* number of audio nodes created so far
    edges,          \* the connections of the audio graph
    eqNodes,        \* eqNodesRef.current: gain of each live filter
    eqBands,        \* eqBands state: gain of each EQBand
    karaokeMode,    \* playerState.karaokeMode
    toggles,        \* number of completed toggleKaraokeMode calls
    eqOps,          \* number of equalizer operations so far
    initCalls,      \* number of initAudioContext calls, counted up to 2
    togglePc,       \* position inside a running toggleKaraokeMode (0: none)
    rendered,       \* the graph the audio thread pulled its last block through
    thrown,         \* where a handler's exception surfaced ("none": nowhere)
    userPresets,    \* Equalizer's userPresets state: gains by preset name
    storedPresets,  \* localStorage 'eq-presets'
    presetAlias,    \* the user preset whose band objects eqBands holds
    mounted,        \* the Visualizer is mounted
    analyser,       \* Visualizer prop: 0 is null
    isPlaying,      \* Visualizer prop
    mode,           \* Visualizer prop
    effect,         \* the effect whose cleanup is registered (gen 0: none)
    animationRef,   \* animationRef.current (0: undefined)
    rafQueue,       \* callbacks the browser holds for the next frame
    nextHandle,     \* next handle requestAnimationFrame returns
    lastTick,       \* the last callback the browser ran
    prevData,       \* prevDataRef.current at the tracked bins (<<>>: length 0)
    dataArray,      \* dataArray of the running effect at the tracked bins
    scene,          \* number of elements of each kind in the svg
    viewport,       \* size of the svg element
    decay,          \* one smoothed bin under a sustained zero target
    appStarted,     \* the App's mount effects have run
    hasLoadedLibraryRef, \* hasLoadedLibraryRef.current
    loadPc,         \* loadSavedLibrary: "idle", "reading", "resolved", "done"
    loadResult,     \* what the startup load has read so far, by store
    playlists,      \* playlists state (ids)
    markers,        \* markers state (ids)
    db,             \* IndexedDB: content of the playlist and marker stores
    dbQueue,        \* IndexedDB transactions in order of creation
    libEdits,       \* number of playlist and marker edits so far
    sleepTimerIntervalRef, \* sleepTimerIntervalRef.current (0: null)
    sleepTimerEndTime,     \* sleepTimerEndTime state (0: null)
    intervals,      \* the interval timers the window holds
    nextTimerId,    \* next id window.setInterval returns
    now,            \* Date.now(), in clock steps
    audioPlaying,   \* the audio element is playing
    expiries        \* number of sleep timers that have expired

graphVars == <<audioContext, nodeCount, edges, eqNodes, eqBands, karaokeMode,
               toggles, eqOps, initCalls, togglePc, rendered, thrown,
               userPresets, storedPresets, presetAlias>>
presetVars == <<userPresets, storedPresets, presetAlias>>
libVars == <<appStarted, hasLoadedLibraryRef, loadPc, loadResult, playlists,
             markers, db, dbQueue, libEdits>>
timerVars == <<sleepTimerIntervalRef, sleepTimerEndTime, intervals,
               nextTimerId, now, audioPlaying, expiries>>
visVars == <<mounted, analyser, isPlaying, mode, effect, animationRef,
             rafQueue, nextHandle, lastTick, prevData, dataArray, scene,
             viewport, decay>>
vars == <<audioContext, nodeCount, edges, eqNodes, eqBands, karaokeMode,
          toggles, eqOps, initCalls, togglePc, rendered, thrown, userPresets,
          storedPresets, presetAlias, mounted, analyser,
          isPlaying, mode, effect, animationRef, rafQueue, nextHandle, lastTick,
          prevData, dataArray, scene, viewport, decay, appStarted,
          hasLoadedLibraryRef, loadPc, loadResult, playlists, markers, db,
          dbQueue, libEdits, sleepTimerIntervalRef, sleepTimerEndTime,
          intervals, nextTimerId, now, audioPlaying, expiries>>

(* ---------------------------------------------------------------------- *)
(* Audio nodes and connections                                             *)
(* ---------------------------------------------------------------------- *)
Node(kind, idx) == [kind |-> kind, idx |-> idx]
source == Node("source", 0)
analyserNode == Node("analyser", 0)
splitter == Node("splitter", 0)
merger == Node("merger", 0)
invertGain == Node("invertGain", 0)
destination == Node("destination", 0)
Filter(i) == Node("eq", i)

\* AudioNode.connect(dest, output, input) and AudioNode.disconnect()
Connect(from, to, out, inp) ==
    [op |-> "connect", from |-> from, to |-> to, out |-> out, inp |-> inp]
Disconnect(from) ==
    [op |-> "disconnect", from |-> from, to |-> from, out |-> 0, inp |-> 0]

Edge(from, to, out, inp) == [from |-> from, to |-> to, out |-> out, inp |-> inp]

\* one connect or disconnect call applied to the connection set
ApplyOp(o, E) ==
    IF o.op = "connect"
    THEN E \cup {Edge(o.from, o.to, o.out, o.inp)}
    ELSE {e \in E : e.from # o.from}

RECURSIVE RunOps(_, _)
RunOps(ops, E) ==
    IF ops = <<>> THEN E ELSE RunOps(Tail(ops), ApplyOp(Head(ops), E))

\* let previousNode = source; chain.forEach(node => { previousNode.connect(node); previousNode = node })
ChainOps ==
    [k \in 1 .. NumBands |->
        Connect(IF k = 1 THEN source ELSE Filter(k - 2), Filter(k - 1), 0, 0)]
LastOfChain == IF NumBands = 0 THEN source ELSE Filter(NumBands - 1)

\* initAudioContext: source -> EQ chain -> analyser -> destination
InitOps ==
    ChainOps \o <<Connect(LastOfChain, analyserNode, 0, 0),
                  Connect(analyserNode, destination, 0, 0)>>

\* a toggle that disconnects the chain and the analyser but leaves the
\* karaoke nodes wired
DisconnectOpsChainOnly ==
    <<Disconnect(source)>>
    \o [k \in 1 .. NumBands |-> Disconnect(Filter(k - 1))]
    \o <<Disconnect(analyserNode)>>

\* toggleKaraokeMode: "Disconnect everything"
DisconnectOps ==
    <<Disconnect(source)>>
    \o [k \in 1 .. NumBands |-> Disconnect(Filter(k - 1))]
    \o <<Disconnect(analyserNode), Disconnect(splitter), Disconnect(merger),
         Disconnect(invertGain)>>

\* toggleKaraokeMode: the karaoke branch
KaraokeOps ==
    ChainOps
    \o <<Connect(LastOfChain, splitter, 0, 0),
         Connect(splitter, merger, 0, 0),
         Connect(splitter, invertGain, 1, 0),
         Connect(invertGain, merger, 0, 0),
         Connect(splitter, merger, 1, 1),
         Connect(splitter, invertGain, 0, 0),
         Connect(invertGain, merger, 0, 1),
         Connect(merger, analyserNode, 0, 0),
         Connect(analyserNode, destination, 0, 0)>>

\* a normal branch that forgets to reconnect the analyser to the output
NormalOpsNoOutput ==
    ChainOps \o <<Connect(LastOfChain, analyserNode, 0, 0)>>

\* toggleKaraokeMode: the normal branch
NormalOps ==
    ChainOps \o <<Connect(LastOfChain, analyserNode, 0, 0),
                  Connect(analyserNode, destination, 0, 0)>>

\* the calls toggleKaraokeMode makes on the graph, in order
ToggleOps(newKaraokeMode) ==
    DisconnectOps \o (IF newKaraokeMode THEN KaraokeOps ELSE NormalOps)

(* ---------------------------------------------------------------------- *)
(* The signal through the vocal-cancellation subgraph                      *)
(* ---------------------------------------------------------------------- *)
InvertGainValue == -1

RECURSIVE SumOver(_, _)
\* the sum of the signals v[e] of the connections e in E (inputs of one
\* port are mixed by addition)
SumOver(E, v) ==
    IF E = {} THEN 0
    ELSE LET e == CHOOSE x \in E : TRUE IN v[e] + SumOver(E \ {e}, v)

\* ChannelSplitterNode: output k carries channel k of its input s = <<L, R>>
SplitterOut(k, s) == s[k + 1]

\* the GainNode with gain -1: its single input mixes every connection into it
InverterOut(E, s) ==
    LET into == {e \in E : e.to = invertGain /\ e.from = splitter}
    IN  InvertGainValue * SumOver(into, [e \in into |-> SplitterOut(e.out, s)])

\* ChannelMergerNode: input ch becomes channel ch of the output
MergerIn(E, s, ch) ==
    LET into == {e \in E : e.to = merger /\ e.inp = ch
                           /\ e.from \in {splitter, invertGain}}
    IN  SumOver(into, [e \in into |->
                         IF e.from = splitter THEN SplitterOut(e.out, s)
                         ELSE InverterOut(E, s)])

\* what reaches the analyser (and the output) for the stereo sample s that
\* leaves the EQ chain: the merger's output when the merger feeds the
\* analyser, the chain's output when the chain feeds it directly
GraphOutput(E, s) ==
    IF Edge(merger, analyserNode, 0, 0) \in E
    THEN <<MergerIn(E, s, 0), MergerIn(E, s, 1)>>
    ELSE s

(* ---------------------------------------------------------------------- *)
(* Equalizer data                                                          *)
(* ---------------------------------------------------------------------- *)
Gains(seq) == [i \in Bands |-> seq[i + 1]]
FlatGains == [i \in Bands |-> 0]

\* getBuiltInPresets
BuiltInPresets ==
    [Flat |-> Gains(<<0, 0, 0, 0, 0, 0, 0, 0, 0, 0>>),
     BassBoost |-> Gains(<<8, 6, 3, 0, 0, 0, 0, 0, 0, 0>>),
     TrebleBoost |-> Gains(<<0, 0, 0, 0, 0, 0, 3, 6, 8, 8>>),
     VocalBoost |-> Gains(<<-2, -1, 2, 4, 5, 4, 2, 0, 0, 0>>),
     Classical |-> Gains(<<0, 0, 0, 0, 0, -2, -2, 0, 0, 3>>),
     Rock |-> Gains(<<6, 4, -2, -3, -1, 2, 5, 7, 7, 7>>)]
PresetNames == DOMAIN BuiltInPresets

\* loadEQSettings() || EQ_FREQUENCIES.map(f => ({frequency: f, gain: 0})):
\* nothing saved, or the bands a previous session saved
InitialEqBands == {FlatGains, [FlatGains EXCEPT ![0] = 7, ![9] = -3]}

Initialized == audioContext # "none"

\* custom presets: loadEQPresets() gives {} when nothing is saved
UserPresetNames == {"Mine", "Night"}
NoPresets == [n \in {} |-> FlatGains]
\* what a previous session can have left in localStorage 'eq-presets'
InitialUserPresets ==
    {NoPresets, [n \in {"Mine"} |-> [FlatGains EXCEPT ![0] = 7, ![9] = -3]]}

(* ---------------------------------------------------------------------- *)
(* Initial state                                                           *)
(* ---------------------------------------------------------------------- *)
GraphStart(presets) ==
    /\ audioContext = "none"
    /\ nodeCount = 0
    /\ edges = {}
    /\ eqNodes = <<>>
    /\ eqBands \in InitialEqBands
    /\ karaokeMode = FALSE
    /\ toggles = 0
    /\ eqOps = 0
    /\ initCalls = 0
    /\ togglePc = 0
    /\ rendered = {}
    /\ thrown = "none"
    /\ userPresets = presets
    /\ storedPresets = presets
    /\ presetAlias = "none"

\* the App before the Equalizer's custom presets come into play
GraphInit == GraphStart(NoPresets)

(* ---------------------------------------------------------------------- *)
(* Signal graph operations (App)                                           *)
(* ---------------------------------------------------------------------- *)
\* an initAudioContext without its "already created" test: it builds the
\* nodes and the flat chain on every call
InitAudioContextAlways ==
    /\ togglePc = 0
    /\ audioContext' \in {"running", "suspended"}
    /\ nodeCount' = nodeCount + 5 + NumBands
    /\ eqNodes' = [i \in Bands |-> 0]
    /\ edges' = RunOps(InitOps, edges)
    /\ initCalls' = IF initCalls < 2 THEN initCalls + 1 ELSE initCalls
    /\ UNCHANGED <<eqBands, karaokeMode, toggles, eqOps, togglePc, rendered>>
    /\ UNCHANGED <<thrown, presetVars>>
    /\ UNCHANGED <<visVars, libVars, timerVars>>

\* playTrack / togglePlayPause call initAudioContext
InitAudioContext ==
    /\ togglePc = 0
    /\ IF audioContext = "none"
       THEN /\ audioContext' \in {"running", "suspended"}
            /\ nodeCount' = nodeCount + 5 + NumBands
            /\ eqNodes' = [i \in Bands |-> 0]
            /\ edges' = RunOps(InitOps, edges)
       ELSE /\ audioContext' = "running"
            /\ UNCHANGED <<nodeCount, eqNodes, edges>>
    /\ initCalls' = IF initCalls < 2 THEN initCalls + 1 ELSE initCalls
    /\ UNCHANGED <<eqBands, karaokeMode, toggles, eqOps, togglePc, rendered>>
    /\ UNCHANGED <<thrown, presetVars>>
    /\ UNCHANGED <<visVars, libVars, timerVars>>

\* a toggle that rewires and leaves playerState.karaokeMode as it was
ToggleKaraokeModeNoFlag ==
    /\ togglePc = 0
    /\ thrown = "none"
    /\ toggles < MaxToggles
    /\ IF ~Initialized
       THEN UNCHANGED <<edges, toggles>>
       ELSE /\ edges' = RunOps(ToggleOps(~karaokeMode), edges)
            /\ toggles' = toggles + 1
    /\ UNCHANGED <<audioContext, nodeCount, eqNodes, eqBands, eqOps, togglePc,
                   rendered, initCalls, karaokeMode>>
    /\ UNCHANGED <<thrown, presetVars>>
    /\ UNCHANGED <<visVars, libVars, timerVars>>

\* the whole of toggleKaraokeMode, as the event loop sees it
ToggleKaraokeMode ==
    /\ togglePc = 0
    /\ thrown = "none"
    /\ toggles < MaxToggles
    /\ IF ~Initialized
       THEN UNCHANGED <<edges, karaokeMode, toggles>>
       ELSE /\ edges' = RunOps(ToggleOps(~karaokeMode), edges)
            /\ karaokeMode' = ~karaokeMode
            /\ toggles' = toggles + 1
    /\ UNCHANGED <<audioContext, nodeCount, eqNodes, eqBands, eqOps, togglePc,
                   rendered, initCalls>>
    /\ UNCHANGED <<thrown, presetVars>>
    /\ UNCHANGED <<visVars, libVars, timerVars>>

\* a write that sets every gain of the array
SetGainAll(gains, index, value) == [i \in DOMAIN gains |-> value]

\* next[index].gain = value, eqNodesRef.current[index].gain.value = value
SetGain(gains, index, value) == [gains EXCEPT ![index] = value]

\* const next = [...prev]; next[index].gain = value: the copy is shallow, so
\* the band object written is also the one a loaded user preset holds
WriteThroughAlias(presets, alias, index, value) ==
    IF alias \in DOMAIN presets
    THEN [presets EXCEPT ![alias] = SetGain(@, index, value)]
    ELSE presets

\* a handleEQChange that updates the React state and not the live filter
HandleEQChangeStateOnly(index, value) ==
    /\ togglePc = 0
    /\ thrown = "none"
    /\ eqOps < MaxEqOps
    /\ eqOps' = eqOps + 1
    /\ eqBands' = SetGain(eqBands, index, value)
    /\ UNCHANGED <<audioContext, nodeCount, edges, eqNodes, karaokeMode,
                   toggles, togglePc, rendered, initCalls>>
    /\ UNCHANGED <<thrown, presetVars>>
    /\ UNCHANGED <<visVars, libVars, timerVars>>

\* handleEQChange(index, value): with no band at index the state updater
\* throws a TypeError; React runs the updater itself, so the error surfaces
\* when it renders and not in the caller
HandleEQChange(index, value) ==
    /\ togglePc = 0
    /\ thrown = "none"
    /\ eqOps < MaxEqOps
    /\ eqOps' = eqOps + 1
    /\ IF index \in DOMAIN eqBands
       THEN /\ eqBands' = SetGain(eqBands, index, value)
            /\ userPresets' =
                   WriteThroughAlias(userPresets, presetAlias, index, value)
            /\ thrown' = "none"
       ELSE /\ thrown' = "render"
            /\ UNCHANGED <<eqBands, userPresets>>
    /\ eqNodes' = IF index \in DOMAIN eqNodes
                  THEN SetGain(eqNodes, index, value)
                  ELSE eqNodes
    /\ UNCHANGED <<audioContext, nodeCount, edges, karaokeMode, toggles,
                   togglePc, rendered, initCalls, storedPresets, presetAlias>>
    /\ UNCHANGED <<visVars, libVars, timerVars>>

\* resetEQ: prev.map(b => ({...b, gain: 0})) makes new band objects
ResetEQ ==
    /\ togglePc = 0
    /\ thrown = "none"
    /\ eqOps < MaxEqOps
    /\ eqOps' = eqOps + 1
    /\ eqBands' = [i \in DOMAIN eqBands |-> 0]
    /\ eqNodes' = [i \in DOMAIN eqNodes |-> 0]
    /\ presetAlias' = "none"
    /\ UNCHANGED <<audioContext, nodeCount, edges, karaokeMode, toggles,
                   togglePc, rendered, initCalls, thrown, userPresets,
                   storedPresets>>
    /\ UNCHANGED <<visVars, libVars, timerVars>>

\* Equalizer onLoadPreset={(presetBands) => setEqBands(presetBands)} with a
\* built-in preset: getBuiltInPresets() builds new objects at every render
LoadPreset(name) ==
    /\ togglePc = 0
    /\ thrown = "none"
    /\ eqOps < MaxEqOps
    /\ eqOps' = eqOps + 1
    /\ eqBands' = BuiltInPresets[name]
    /\ presetAlias' = "none"
    /\ UNCHANGED <<audioContext, nodeCount, edges, eqNodes, karaokeMode,
                   toggles, togglePc, rendered, initCalls, thrown, userPresets,
                   storedPresets>>
    /\ UNCHANGED <<visVars, libVars, timerVars>>

\* onLoadPreset with a custom preset: eqBands becomes the very array the
\* Equalizer's userPresets state holds
LoadUserPreset(name) ==
    /\ togglePc = 0
    /\ thrown = "none"
    /\ eqOps < MaxEqOps
    /\ name \in DOMAIN userPresets
    /\ eqOps' = eqOps + 1
    /\ eqBands' = userPresets[name]
    /\ presetAlias' = name
    /\ UNCHANGED <<audioContext, nodeCount, edges, eqNodes, karaokeMode,
                   toggles, togglePc, rendered, initCalls, thrown, userPresets,
                   storedPresets>>
    /\ UNCHANGED <<visVars, libVars, timerVars>>

\* handleSavePreset: saveEQPreset(name, bands); setUserPresets(loadEQPresets()).
\* The presets read back from localStorage are new objects with the stored
\* gains: eqBands shares none of them
SavePreset(name) ==
    /\ togglePc = 0
    /\ thrown = "none"
    /\ eqOps < MaxEqOps
    /\ eqOps' = eqOps + 1
    /\ LET saved == [n \in DOMAIN storedPresets \cup {name} |->
                        IF n = name THEN eqBands ELSE storedPresets[n]]
       IN  /\ storedPresets' = saved
           /\ userPresets' = saved
    /\ presetAlias' = "none"
    /\ UNCHANGED <<audioContext, nodeCount, edges, eqNodes, eqBands,
                   karaokeMode, toggles, togglePc, rendered, initCalls, thrown>>
    /\ UNCHANGED <<visVars, libVars, timerVars>>

\* handleDeletePreset: deleteEQPreset(name); setUserPresets(loadEQPresets())
DeletePreset(name) ==
    /\ togglePc = 0
    /\ thrown = "none"
    /\ eqOps < MaxEqOps
    /\ name \in DOMAIN userPresets
    /\ eqOps' = eqOps + 1
    /\ LET kept == [n \in DOMAIN storedPresets \ {name} |-> storedPresets[n]]
       IN  /\ storedPresets' = kept
           /\ userPresets' = kept
    /\ presetAlias' = "none"
    /\ UNCHANGED <<audioContext, nodeCount, edges, eqNodes, eqBands,
                   karaokeMode, toggles, togglePc, rendered, initCalls, thrown>>
    /\ UNCHANGED <<visVars, libVars, timerVars>>

(* ---------------------------------------------------------------------- *)
(* toggleKaraokeMode call by call, beside the audio rendering thread       *)
(* ---------------------------------------------------------------------- *)
\* toggleKaraokeMode is entered (past its early return)
ToggleBegin ==
    /\ togglePc = 0
    /\ Initialized
    /\ toggles < MaxToggles
    /\ togglePc' = 1
    /\ UNCHANGED <<audioContext, nodeCount, edges, eqNodes, eqBands,
                   karaokeMode, toggles, eqOps, rendered, initCalls>>
    /\ UNCHANGED <<thrown, presetVars>>
    /\ UNCHANGED <<visVars, libVars, timerVars>>

\* the next disconnect or connect call of the running toggleKaraokeMode
ToggleStep ==
    /\ togglePc \in 1 .. Len(ToggleOps(~karaokeMode))
    /\ edges' = ApplyOp(ToggleOps(~karaokeMode)[togglePc], edges)
    /\ togglePc' = togglePc + 1
    /\ UNCHANGED <<audioContext, nodeCount, eqNodes, eqBands, karaokeMode,
                   toggles, eqOps, rendered, initCalls>>
    /\ UNCHANGED <<thrown, presetVars>>
    /\ UNCHANGED <<visVars, libVars, timerVars>>

\* setPlayerState(prev => ({...prev, karaokeMode: newKaraokeMode}))
ToggleEnd ==
    /\ togglePc = Len(ToggleOps(~karaokeMode)) + 1
    /\ karaokeMode' = ~karaokeMode
    /\ toggles' = toggles + 1
    /\ togglePc' = 0
    /\ UNCHANGED <<audioContext, nodeCount, edges, eqNodes, eqBands, eqOps,
                   rendered, initCalls>>
    /\ UNCHANGED <<thrown, presetVars>>
    /\ UNCHANGED <<visVars, libVars, timerVars>>

\* the audio rendering thread pulls one block through the graph as it is
AudioPull ==
    /\ audioContext = "running"
    /\ rendered' = {edges}
    /\ UNCHANGED <<audioContext, nodeCount, edges, eqNodes, eqBands,
                   karaokeMode, toggles, eqOps, togglePc, initCalls>>
    /\ UNCHANGED <<thrown, presetVars>>
    /\ UNCHANGED <<visVars, libVars, timerVars>>

(* ---------------------------------------------------------------------- *)
(* Visualizer: the animation loop                                          *)
(* ---------------------------------------------------------------------- *)
VisualizerModes ==
    {"BARS", "WAVE", "CIRCLE", "SPIRAL", "PARTICLES", "SPECTRUM", "RINGS", "DNA"}
\* a set of always-animated modes that leaves out CIRCLE
IdleModesNoCircle == {"SPIRAL", "WAVE"}

\* modes renderFrame keeps animating while not playing
IdleModes == {"CIRCLE", "SPIRAL", "WAVE"}
\* values of the analyser prop: 0 is null
Analysers == {0, 1}

\* the values one run of the effect closes over
Closure(gen, playing, m) == [gen |-> gen, isPlaying |-> playing, mode |-> m]
NoEffect == [active |-> FALSE, gen |-> 0, isPlaying |-> FALSE, mode |-> "BARS"]
NoTick == [id |-> 0, gen |-> 0, live |-> TRUE, threw |-> FALSE]

\* the frame scheduler's state: animationRef.current, the browser's queue of
\* frame callbacks and the next handle it hands out
Sched(ref, queue, next) == [ref |-> ref, queue |-> queue, next |-> next]

\* a cancelAnimationFrame that cancels nothing
CancelNothing(queue, id) == queue

\* cancelAnimationFrame(id)
CancelAnimationFrame(queue, id) == {t \in queue : t.id # id}

\* requestAnimationFrame(renderFrame): handles are never reused
RequestAnimationFrame(c, s) ==
    Sched(s.next,
          s.queue \cup {[id |-> s.next, gen |-> c.gen,
                         isPlaying |-> c.isPlaying, mode |-> c.mode]},
          s.next + 1)

\* renderFrame of the effect run with closure c
RenderFrame(c, s) ==
    IF ~c.isPlaying /\ c.mode \notin IdleModes
    THEN Sched(s.ref, CancelAnimationFrame(s.queue, s.ref), s.next)
    ELSE RequestAnimationFrame(c, s)

\* an effect that returns a cleanup which leaves the pending frame alone
CleanupNoCancel(s) == s

\* the function the effect returns
Cleanup(s) ==
    IF s.ref # 0
    THEN Sched(s.ref, CancelAnimationFrame(s.queue, s.ref), s.next)
    ELSE s

(* ---------------------------------------------------------------------- *)
(* Visualizer: sampling and smoothing                                      *)
(*                                                                         *)
(* Smoothed values are held in thousandths, rounded to the nearest one    *)
(* after each update (the code keeps them in a Float32Array, whose         *)
(* rounding is finer).  Smoothing factors are in tenths.  The buffer has   *)
(* 512 bins, every one updated by the same rule from its own sample: the   *)
(* model follows the first bin.                                           *)
(* ---------------------------------------------------------------------- *)
FftSize == 1024
\* analyser.frequencyBinCount
BufferLength == FftSize \div 2
TrackedBins == {0}
\* a Uint8Array holds 0 .. 255
MaxMagnitude == 255
\* magnitudes getByteFrequencyData may deliver
Magnitudes == {0, MaxMagnitude}
Scale == 10 ^ 3

Length(buffer) == IF DOMAIN buffer = {} THEN 0 ELSE BufferLength
ZeroBuffer == [i \in TrackedBins |-> 0]

\* a smoothing factor that leaves out the WAVE case
SmoothingFactorNoWave(m) == IF m = "SPIRAL" THEN 8 ELSE 3

\* a smoothing factor whose default is 0.1
SmoothingFactorSlow(m) ==
    IF m = "WAVE" THEN 5 ELSE IF m = "SPIRAL" THEN 8 ELSE 1

\* let smoothingFactor = 0.3; SPIRAL: 0.8; WAVE: 0.5 (in tenths)
SmoothingFactor(m) ==
    IF m = "WAVE" THEN 5 ELSE IF m = "SPIRAL" THEN 8 ELSE 3

\* n / d rounded to the nearest integer
RoundDiv(n, d) == (2 * n + d) \div (2 * d)

\* an update that moves away from the target
SmoothAway(prev, target, alpha) ==
    prev - RoundDiv((target * Scale - prev) * alpha, 10)

\* prevDataRef.current[i] += (target - prevDataRef.current[i]) * smoothingFactor
Smooth(prev, target, alpha) ==
    prev + RoundDiv((target * Scale - prev) * alpha, 10)

\* renderFrame goes past its first test and samples, smooths and draws
Renders(c) == c.isPlaying \/ c.mode \in IdleModes

\* the smoothing loop of renderFrame over the buffer
SmoothAll(prev, data, c) ==
    [i \in DOMAIN prev |->
        Smooth(prev[i], IF c.isPlaying THEN data[i] ELSE 0,
               SmoothingFactor(c.mode))]

(* ---------------------------------------------------------------------- *)
(* Visualizer: the scene                                                   *)
(*                                                                         *)
(* The scene is the number of children of the svg of each kind (tag and    *)
(* class).  A d3 data join on a selector leaves as many matching elements  *)
(* as the data has entries.                                                *)
(* ---------------------------------------------------------------------- *)
Kind(tag, class) == [tag |-> tag, class |-> class]
ElementKinds ==
    {Kind("rect", ""), Kind("rect", "spectrum-bar"), Kind("g", "wave-petal"),
     Kind("circle", "core"), Kind("circle", ""), Kind("circle", "dna-strand"),
     Kind("line", ""), Kind("line", "dna-connector"), Kind("defs", "")}
EmptyScene == [k \in ElementKinds |-> 0]

\* a selector "tag", ".class" or "tag.class" matches an element kind
Matches(sel, k) ==
    /\ sel.tag = "" \/ sel.tag = k.tag
    /\ sel.class = "" \/ sel.class = k.class

RECURSIVE Total(_, _)
Total(sc, kinds) ==
    IF kinds = {} THEN 0
    ELSE LET k == CHOOSE x \in kinds : TRUE IN sc[k] + Total(sc, kinds \ {k})

RECURSIVE RemoveFrom(_, _, _)
\* selection.exit().remove(): n of the elements of these kinds go
RemoveFrom(sc, kinds, n) ==
    IF n = 0 \/ kinds = {} THEN sc
    ELSE LET k == CHOOSE x \in kinds : TRUE
             r == IF sc[k] < n THEN sc[k] ELSE n
         IN  RemoveFrom([sc EXCEPT ![k] = @ - r], kinds \ {k}, n - r)

\* svg.selectAll(sel).data(d) with d of n entries, enter().append(kind),
\* exit().remove()
Join(sc, sel, kind, n) ==
    LET matched == {k \in ElementKinds : Matches(sel, k)}
        have == Total(sc, matched)
    IN  IF have <= n
        THEN [sc EXCEPT ![kind] = @ + (n - have)]
        ELSE RemoveFrom(sc, matched, have - n)

BarCount == 64
NumPetals == 16
CirclePoints == 80
SpiralPoints == 350
ParticleCount == 150
SpectrumBarCount == 96
RingCount == 12
DnaPoints == 120
ConnectorEvery == 8

\* a spiral that pushes one vortex only
SpiralDataLengthOneVortex == SpiralPoints

\* spiralData: two entries pushed for each of the points
SpiralDataLength == 2 * SpiralPoints
\* helixData without the connectors: two strand points for each point
StrandDataLength == 2 * DnaPoints
\* helixData's connectors: one where i % 8 === 0
ConnectorDataLength ==
    Cardinality({i \in 0 .. (DnaPoints - 1) : i % ConnectorEvery = 0})

JoinOf(sel, kind, n) == [sel |-> sel, kind |-> kind, n |-> n]

\* the data joins renderFrame makes on the svg in each mode
Joins(m) ==
    CASE m = "BARS" ->
           <<JoinOf(Kind("rect", ""), Kind("rect", ""), BarCount)>>
      [] m = "WAVE" ->
           <<JoinOf(Kind("", "wave-petal"), Kind("g", "wave-petal"), NumPetals)>>
      [] m = "CIRCLE" ->
           <<JoinOf(Kind("", "core"), Kind("circle", "core"), 1),
             JoinOf(Kind("line", ""), Kind("line", ""), CirclePoints)>>
      [] m = "SPIRAL" ->
           <<JoinOf(Kind("circle", ""), Kind("circle", ""), SpiralDataLength)>>
      [] m = "PARTICLES" ->
           <<JoinOf(Kind("circle", ""), Kind("circle", ""), ParticleCount)>>
      [] m = "SPECTRUM" ->
           <<JoinOf(Kind("defs", ""), Kind("defs", ""), 1),
             JoinOf(Kind("rect", "spectrum-bar"), Kind("rect", "spectrum-bar"),
                    SpectrumBarCount)>>
      [] m = "RINGS" ->
           <<JoinOf(Kind("circle", ""), Kind("circle", ""), RingCount)>>
      [] m = "DNA" ->
           <<JoinOf(Kind("circle", "dna-strand"), Kind("circle", "dna-strand"),
                    StrandDataLength),
             JoinOf(Kind("line", "dna-connector"), Kind("line", "dna-connector"),
                    ConnectorDataLength)>>

RECURSIVE RunJoins(_, _)
RunJoins(js, sc) ==
    IF js = <<>> THEN sc
    ELSE RunJoins(Tail(js), Join(sc, Head(js).sel, Head(js).kind, Head(js).n))

\* the "Render Modes" part of renderFrame
Draw(sc, m) == RunJoins(Joins(m), sc)

\* an effect that does not clear the svg
ClearSvgNot(sc) == sc

\* svg.selectAll("*").remove()
ClearSvg(sc) == EmptyScene

(* ---------------------------------------------------------------------- *)
(* Visualizer: the effect                                                  *)
(* ---------------------------------------------------------------------- *)
Viewports == {"800x600", "400x300"}

\* the effect's body, after the previous run's cleanup: returns early without
\* an analyser, else renderFrame() and a registered cleanup
RunEffect(a, playing, m, s) ==
    LET s1 == IF effect.active THEN Cleanup(s) ELSE s
        c == Closure(effect.gen + 1, playing, m)
    IN  IF a = 0
        THEN [eff |-> [NoEffect EXCEPT !.gen = effect.gen], sched |-> s1]
        ELSE [eff |-> [active |-> TRUE, gen |-> c.gen, isPlaying |-> playing,
                       mode |-> m],
              sched |-> RenderFrame(c, s1)]

\* an effect that starts from a zero-filled buffer at every run
EffectPrevAlwaysReset(a, playing, m, prev, d) ==
    LET c == Closure(effect.gen + 1, playing, m)
    IN  IF a = 0 THEN prev
        ELSE IF Renders(c) THEN SmoothAll(ZeroBuffer, d, c) ELSE ZeroBuffer

\* the smoothing buffer after the effect's body: a zero-filled buffer when
\* the length differs from the bin count, then the first renderFrame()
EffectPrev(a, playing, m, prev, d) ==
    LET p0 == IF Length(prev) # BufferLength THEN ZeroBuffer ELSE prev
        c == Closure(effect.gen + 1, playing, m)
    IN  IF a = 0 THEN prev
        ELSE IF Renders(c) THEN SmoothAll(p0, d, c) ELSE p0

\* dataArray after the effect's body: new Uint8Array(bufferLength), filled
\* by getByteFrequencyData when the first renderFrame() gets that far
EffectData(a, playing, m, old, d) ==
    IF a = 0 THEN old
    ELSE IF Renders(Closure(effect.gen + 1, playing, m)) THEN d ELSE ZeroBuffer

\* the svg after the effect's body: cleared, then the first renderFrame()
EffectScene(a, playing, m, sc) ==
    IF a = 0 THEN sc
    ELSE IF Renders(Closure(effect.gen + 1, playing, m))
         THEN Draw(ClearSvg(sc), m)
         ELSE ClearSvg(sc)

\* what getByteFrequencyData can write for the effect's first renderFrame():
\* nothing is sampled when the effect or renderFrame returns early
SampledBy(a, playing, m) ==
    IF a # 0 /\ Renders(Closure(effect.gen + 1, playing, m))
    THEN [TrackedBins -> Magnitudes]
    ELSE {ZeroBuffer}

NoDecay == [start |-> 0, value |-> 0, mode |-> "BARS", ticks |-> 0]

VisInit ==
    /\ mounted = FALSE
    /\ analyser = 0
    /\ isPlaying = FALSE
    /\ mode = "BARS"
    /\ effect = NoEffect
    /\ animationRef = 0
    /\ rafQueue = {}
    /\ nextHandle = 1
    /\ lastTick = NoTick
    /\ prevData = <<>>
    /\ dataArray = <<>>
    /\ scene = EmptyScene
    /\ viewport = "800x600"
    /\ decay = NoDecay

\* the Visualizer is rendered for the first time: fresh refs, then the effect
Mount ==
    /\ ~mounted
    /\ effect.gen < MaxEffectRuns
    /\ nextHandle <= MaxFrames
    /\ \E a \in Analysers, playing \in BOOLEAN, m \in VisualizerModes :
       \E d \in SampledBy(a, playing, m) :
        LET r == RunEffect(a, playing, m, Sched(0, rafQueue, nextHandle))
        IN  /\ mounted' = TRUE
            /\ analyser' = a
            /\ isPlaying' = playing
            /\ mode' = m
            /\ effect' = r.eff
            /\ animationRef' = r.sched.ref
            /\ rafQueue' = r.sched.queue
            /\ nextHandle' = r.sched.next
            /\ prevData' = EffectPrev(a, playing, m, <<>>, d)
            /\ dataArray' = EffectData(a, playing, m, <<>>, d)
            /\ scene' = EffectScene(a, playing, m, EmptyScene)
    /\ UNCHANGED <<lastTick, viewport, decay>>
    /\ UNCHANGED <<graphVars, libVars, timerVars>>

\* a prop in the dependency list [analyser, isPlaying, mode] changes: the
\* previous cleanup runs, then the effect
PropsChange ==
    /\ mounted
    /\ effect.gen < MaxEffectRuns
    /\ nextHandle <= MaxFrames
    /\ \E a \in Analysers, playing \in BOOLEAN, m \in VisualizerModes :
       \E d \in SampledBy(a, playing, m) :
        /\ <<a, playing, m>> # <<analyser, isPlaying, mode>>
        /\ LET r == RunEffect(a, playing, m,
                              Sched(animationRef, rafQueue, nextHandle))
           IN  /\ analyser' = a
               /\ isPlaying' = playing
               /\ mode' = m
               /\ effect' = r.eff
               /\ animationRef' = r.sched.ref
               /\ rafQueue' = r.sched.queue
               /\ nextHandle' = r.sched.next
               /\ prevData' = EffectPrev(a, playing, m, prevData, d)
               /\ dataArray' = EffectData(a, playing, m, dataArray, d)
               /\ scene' = EffectScene(a, playing, m, scene)
    /\ UNCHANGED <<mounted, lastTick, viewport, decay>>
    /\ UNCHANGED <<graphVars, libVars, timerVars>>

\* the Visualizer is removed: the cleanup runs, the refs and the props go
\* with it
Unmount ==
    /\ mounted
    /\ LET s == IF effect.active
                THEN Cleanup(Sched(animationRef, rafQueue, nextHandle))
                ELSE Sched(animationRef, rafQueue, nextHandle)
       IN  /\ rafQueue' = s.queue
           /\ nextHandle' = s.next
    /\ mounted' = FALSE
    /\ effect' = [NoEffect EXCEPT !.gen = effect.gen]
    /\ animationRef' = 0
    /\ prevData' = <<>>
    /\ dataArray' = <<>>
    /\ scene' = EmptyScene
    /\ analyser' = 0
    /\ isPlaying' = FALSE
    /\ mode' = "BARS"
    /\ UNCHANGED <<lastTick, viewport, decay>>
    /\ UNCHANGED <<graphVars, libVars, timerVars>>

\* the svg element changes size: the component listens to no resize event
\* and the size is not among the effect's dependencies
Resize ==
    /\ mounted
    /\ \E v \in Viewports : v # viewport /\ viewport' = v
    /\ UNCHANGED <<mounted, analyser, isPlaying, mode, effect, animationRef,
                   rafQueue, nextHandle, lastTick, prevData, dataArray, scene,
                   decay>>
    /\ UNCHANGED <<graphVars, libVars, timerVars>>

TickRecord(t, threw) ==
    [id |-> t.id, gen |-> t.gen,
     live |-> mounted /\ effect.active /\ effect.gen = t.gen,
     threw |-> threw]

\* the browser runs a pending frame callback: renderFrame of the effect run
\* that requested it
Tick ==
    /\ nextHandle <= MaxFrames
    /\ \E t \in rafQueue, d \in [TrackedBins -> Magnitudes] :
        LET c == Closure(t.gen, t.isPlaying, t.mode)
            s == RenderFrame(c, Sched(animationRef, rafQueue \ {t}, nextHandle))
        IN  /\ lastTick' = TickRecord(t, FALSE)
            /\ animationRef' = s.ref
            /\ rafQueue' = s.queue
            /\ nextHandle' = s.next
            /\ prevData' = IF Renders(c) THEN SmoothAll(prevData, d, c)
                           ELSE prevData
            /\ dataArray' = IF Renders(c) THEN d ELSE dataArray
            /\ scene' = IF Renders(c) THEN Draw(scene, c.mode) ELSE scene
    /\ UNCHANGED <<mounted, analyser, isPlaying, mode, effect, viewport, decay>>
    /\ UNCHANGED <<graphVars, libVars, timerVars>>

\* a frame callback whose render-mode code throws: the samples are read and
\* smoothed, the exception leaves renderFrame before it requests a frame
TickThrows ==
    /\ nextHandle <= MaxFrames
    /\ \E t \in rafQueue, d \in [TrackedBins -> Magnitudes] :
        LET c == Closure(t.gen, t.isPlaying, t.mode)
        IN  /\ Renders(c)
            /\ lastTick' = TickRecord(t, TRUE)
            /\ rafQueue' = rafQueue \ {t}
            /\ prevData' = SmoothAll(prevData, d, c)
            /\ dataArray' = d
    /\ UNCHANGED <<mounted, analyser, isPlaying, mode, effect, animationRef,
                   nextHandle, scene, viewport, decay>>
    /\ UNCHANGED <<graphVars, libVars, timerVars>>

(* ---------------------------------------------------------------------- *)
(* One bin under a sustained zero target                                   *)
(* ---------------------------------------------------------------------- *)
\* one more renderFrame with target 0 (not playing, in a mode that animates)
DecayTick ==
    /\ decay.ticks < MaxDecayTicks
    /\ decay' = [decay EXCEPT !.value = Smooth(@, 0, SmoothingFactor(decay.mode)),
                              !.ticks = @ + 1]
    /\ UNCHANGED <<mounted, analyser, isPlaying, mode, effect, animationRef,
                   rafQueue, nextHandle, lastTick, prevData, dataArray, scene,
                   viewport>>
    /\ UNCHANGED <<graphVars, libVars, timerVars>>

(* ---------------------------------------------------------------------- *)
(* Startup load and auto-save of playlists and chapter markers (App)       *)
(*                                                                         *)
(* A list is the set of its entries' ids.  Every load and save opens the   *)
(* database and then one transaction on one store; open requests are       *)
(* served in the order they were made and transactions on a store run in   *)
(* the order they were created, so the database is a queue of              *)
(* transactions.                                                           *)
(* ---------------------------------------------------------------------- *)
Stores == {"playlists", "markers"}
Ids == {"a", "b"}
NoLibrary == [st \in Stores |-> {}]
\* what an earlier session can have left in the two stores
SavedLibraries == [Stores -> {{}, {"a"}}]

ReadTx(st) == [kind |-> "read", store |-> st, value |-> {}]
WriteTx(st, list) == [kind |-> "write", store |-> st, value |-> list]

LibInit(saved) ==
    /\ appStarted = FALSE
    /\ hasLoadedLibraryRef = FALSE
    /\ loadPc = "idle"
    /\ loadResult = NoLibrary
    /\ playlists = {}
    /\ markers = {}
    /\ db = saved
    /\ dbQueue = <<>>
    /\ libEdits = 0

\* the auto-save effects of playlists and of markers:
\* if (!hasLoadedLibraryRef.current) return; savePlaylists(playlists)
AutoSave(flag, st, list, queue) ==
    IF ~flag THEN queue ELSE Append(queue, WriteTx(st, list))

\* the App is mounted and its effects run in the order they are declared:
\* loadSavedLibrary() up to its await, then the two auto-save effects
StartApp ==
    /\ ~appStarted
    /\ appStarted' = TRUE
    /\ LET load == ~hasLoadedLibraryRef
           \* true already, or set by loadSavedLibrary before its await
           flag == TRUE
           q0 == IF load
                 THEN dbQueue \o <<ReadTx("playlists"), ReadTx("markers")>>
                 ELSE dbQueue
           q1 == AutoSave(flag, "playlists", playlists, q0)
       IN  /\ hasLoadedLibraryRef' = flag
           /\ loadPc' = IF load THEN "reading" ELSE loadPc
           /\ dbQueue' = AutoSave(flag, "markers", markers, q1)
    /\ UNCHANGED <<loadResult, playlists, markers, db, libEdits>>
    /\ UNCHANGED <<graphVars, visVars, timerVars>>

\* the database runs its oldest transaction: getAll() of a load, or
\* clear() and add() of a save
DbStep ==
    /\ dbQueue # <<>>
    /\ LET tx == Head(dbQueue)
           left == Tail(dbQueue)
           reading == \E k \in 1 .. Len(left) : left[k].kind = "read"
       IN  /\ dbQueue' = left
           /\ IF tx.kind = "read"
              THEN /\ loadResult' = [loadResult EXCEPT ![tx.store] = db[tx.store]]
                   /\ loadPc' = IF reading THEN loadPc ELSE "resolved"
                   /\ UNCHANGED db
              ELSE /\ db' = [db EXCEPT ![tx.store] = tx.value]
                   /\ UNCHANGED <<loadResult, loadPc>>
    /\ UNCHANGED <<appStarted, hasLoadedLibraryRef, playlists, markers, libEdits>>
    /\ UNCHANGED <<graphVars, visVars, timerVars>>

\* loadSavedLibrary after its await: a non-empty list read is set to state,
\* which runs that list's auto-save effect
LoadComplete ==
    /\ loadPc = "resolved"
    /\ loadPc' = "done"
    /\ LET p == loadResult["playlists"]
           m == loadResult["markers"]
           q1 == IF p # {}
                 THEN AutoSave(hasLoadedLibraryRef, "playlists", p, dbQueue)
                 ELSE dbQueue
       IN  /\ playlists' = IF p # {} THEN p ELSE playlists
           /\ markers' = IF m # {} THEN m ELSE markers
           /\ dbQueue' = IF m # {}
                         THEN AutoSave(hasLoadedLibraryRef, "markers", m, q1)
                         ELSE q1
    /\ UNCHANGED <<appStarted, hasLoadedLibraryRef, loadResult, db, libEdits>>
    /\ UNCHANGED <<graphVars, visVars, timerVars>>

\* the user creates a playlist: setPlaylists(prev => [...prev, newPlaylist])
CreatePlaylist(id) ==
    /\ appStarted
    /\ libEdits < MaxLibEdits
    /\ id \notin playlists
    /\ libEdits' = libEdits + 1
    /\ playlists' = playlists \cup {id}
    /\ dbQueue' = AutoSave(hasLoadedLibraryRef, "playlists", playlists', dbQueue)
    /\ UNCHANGED <<appStarted, hasLoadedLibraryRef, loadPc, loadResult, markers,
                   db>>
    /\ UNCHANGED <<graphVars, visVars, timerVars>>

\* the user adds a chapter marker: setMarkers(prev => [...prev, newMarker])
AddMarker(id) ==
    /\ appStarted
    /\ libEdits < MaxLibEdits
    /\ id \notin markers
    /\ libEdits' = libEdits + 1
    /\ markers' = markers \cup {id}
    /\ dbQueue' = AutoSave(hasLoadedLibraryRef, "markers", markers', dbQueue)
    /\ UNCHANGED <<appStarted, hasLoadedLibraryRef, loadPc, loadResult,
                   playlists, db>>
    /\ UNCHANGED <<graphVars, visVars, timerVars>>

(* ---------------------------------------------------------------------- *)
(* Sleep timer (App)                                                       *)
(*                                                                         *)
(* The clock advances in steps of 15 minutes; the interval callback runs   *)
(* every second, that is any number of times within one clock step.        *)
(* ---------------------------------------------------------------------- *)
ClockStepMinutes == 15
\* the first two of the durations offered: [15, 30, 45, 60, 90, 120]
SleepMinutes == {15, 30}

TimerInit ==
    /\ sleepTimerIntervalRef = 0
    /\ sleepTimerEndTime = 0
    /\ intervals = {}
    /\ nextTimerId = 1
    /\ now = 0
    /\ audioPlaying = FALSE
    /\ expiries = 0

\* a clearInterval that cancels nothing
ClearIntervalNothing(timers, id) == timers

\* clearInterval(id)
ClearInterval(timers, id) == {t \in timers : t.id # id}

\* clearSleepTimer, on the window's timers and the ref
ClearedTimers ==
    IF sleepTimerIntervalRef # 0
    THEN ClearInterval(intervals, sleepTimerIntervalRef)
    ELSE intervals

\* startSleepTimer(minutes)
StartSleepTimer(minutes) ==
    /\ nextTimerId <= MaxTimers
    /\ LET endTime == now + minutes \div ClockStepMinutes
       IN  /\ sleepTimerEndTime' = endTime
           /\ intervals' = ClearedTimers
                             \cup {[id |-> nextTimerId, endTime |-> endTime]}
    /\ sleepTimerIntervalRef' = nextTimerId
    /\ nextTimerId' = nextTimerId + 1
    /\ UNCHANGED <<now, audioPlaying, expiries>>
    /\ UNCHANGED <<graphVars, visVars, libVars>>

\* the "Cancel Timer" button: clearSleepTimer()
CancelSleepTimer ==
    /\ sleepTimerEndTime # 0
    /\ intervals' = ClearedTimers
    /\ sleepTimerIntervalRef' = 0
    /\ sleepTimerEndTime' = 0
    /\ UNCHANGED <<nextTimerId, now, audioPlaying, expiries>>
    /\ UNCHANGED <<graphVars, visVars, libVars>>

\* the callback of an interval the window holds runs:
\* if (Date.now() >= endTime) { pause; clearSleepTimer() }
IntervalFires ==
    /\ \E t \in intervals :
          IF now >= t.endTime
          THEN /\ audioPlaying' = FALSE
               /\ intervals' = ClearedTimers
               /\ sleepTimerIntervalRef' = 0
               /\ sleepTimerEndTime' = 0
               /\ expiries' = expiries + 1
          ELSE UNCHANGED <<audioPlaying, intervals, sleepTimerIntervalRef,
                           sleepTimerEndTime, expiries>>
    /\ UNCHANGED <<nextTimerId, now>>
    /\ UNCHANGED <<graphVars, visVars, libVars>>

\* the user starts or pauses playback
TogglePlayPause ==
    /\ audioPlaying' = ~audioPlaying
    /\ UNCHANGED <<sleepTimerIntervalRef, sleepTimerEndTime, intervals,
                   nextTimerId, now, expiries>>
    /\ UNCHANGED <<graphVars, visVars, libVars>>

\* the clock moves on by one step
TimePasses ==
    /\ now < MaxTime
    /\ now' = now + 1
    /\ UNCHANGED <<sleepTimerIntervalRef, sleepTimerEndTime, intervals,
                   nextTimerId, audioPlaying, expiries>>
    /\ UNCHANGED <<graphVars, visVars, libVars>>

(* ---------------------------------------------------------------------- *)
(* Specifications                                                          *)
(* ---------------------------------------------------------------------- *)
Init == GraphInit /\ VisInit /\ LibInit(NoLibrary) /\ TimerInit

\* the signal graph as the event loop sees it: every handler runs to its end
GraphNext ==
    \/ InitAudioContext
    \/ ToggleKaraokeMode
    \/ \E index \in Bands, value \in RequestGains : HandleEQChange(index, value)
    \/ ResetEQ
    \/ \E name \in PresetNames : LoadPreset(name)

SpecGraph == Init /\ [][GraphNext]_vars

\* handleEQChange as a function any caller may use, with band indexes on
\* both sides of the valid range
BandIndexes == -1 .. NumBands
ContractNext ==
    \/ InitAudioContext
    \/ ToggleKaraokeMode
    \/ \E index \in BandIndexes, value \in RequestGains :
          HandleEQChange(index, value)
    \/ ResetEQ

SpecContract == Init /\ [][ContractNext]_vars

\* the Equalizer panel with its custom presets, open for the whole session
PresetStart ==
    /\ \E presets \in InitialUserPresets : GraphStart(presets)
    /\ VisInit
    /\ LibInit(NoLibrary)
    /\ TimerInit

PresetNext ==
    \/ \E index \in Bands, value \in RequestGains : HandleEQChange(index, value)
    \/ ResetEQ
    \/ \E name \in PresetNames : LoadPreset(name)
    \/ \E name \in UserPresetNames : LoadUserPreset(name)
    \/ \E name \in UserPresetNames : SavePreset(name)
    \/ \E name \in UserPresetNames : DeletePreset(name)

SpecPresets == PresetStart /\ [][PresetNext]_vars

\* the signal graph as the audio rendering thread sees it
AudioNext ==
    \/ InitAudioContext
    \/ ToggleBegin
    \/ ToggleStep
    \/ ToggleEnd
    \/ AudioPull

SpecAudioThread == Init /\ [][AudioNext]_vars

\* the Visualizer's animation loop
VisNext ==
    \/ Mount
    \/ PropsChange
    \/ Unmount
    \/ Tick

\* the Visualizer reads nothing of the equalizer: one saved setting
VisStart == Init /\ eqBands = FlatGains

SpecVisualizer == VisStart /\ [][VisNext]_vars

\* the animation loop in a window that changes size
ViewportNext ==
    \/ Mount
    \/ PropsChange
    \/ Unmount
    \/ Tick
    \/ Resize

SpecViewport == VisStart /\ [][ViewportNext]_vars

\* the animation loop when render-mode code may throw
FaultNext ==
    \/ Mount
    \/ PropsChange
    \/ Unmount
    \/ Tick
    \/ TickThrows

SpecRenderFault == VisStart /\ [][FaultNext]_vars

\* the smoother fed zero targets, from every start value and in every mode
DecayNext == DecayTick

DecayStart ==
    /\ GraphInit
    /\ mounted = FALSE /\ analyser = 0 /\ isPlaying = FALSE /\ mode = "BARS"
    /\ effect = NoEffect /\ animationRef = 0 /\ rafQueue = {}
    /\ nextHandle = 1 /\ lastTick = NoTick /\ prevData = <<>>
    /\ dataArray = <<>> /\ scene = EmptyScene /\ viewport = "800x600"
    /\ LibInit(NoLibrary)
    /\ TimerInit
    /\ \E v \in 0 .. MaxMagnitude, m \in VisualizerModes :
          decay = [start |-> v * Scale, value |-> v * Scale, mode |-> m,
                   ticks |-> 0]

SpecDecay == DecayStart /\ [][DecayNext]_vars

\* startup of the App with what an earlier session saved
StartupInit ==
    /\ GraphInit
    /\ eqBands = FlatGains
    /\ VisInit
    /\ \E saved \in SavedLibraries : LibInit(saved)
    /\ TimerInit

StartupNext ==
    \/ StartApp
    \/ DbStep
    \/ LoadComplete
    \/ \E id \in Ids : CreatePlaylist(id)
    \/ \E id \in Ids : AddMarker(id)

SpecStartup == StartupInit /\ [][StartupNext]_vars

\* the sleep timer
SleepTimerNext ==
    \/ \E minutes \in SleepMinutes : StartSleepTimer(minutes)
    \/ CancelSleepTimer
    \/ IntervalFires
    \/ TogglePlayPause
    \/ TimePasses

SpecSleepTimer == VisStart /\ [][SleepTimerNext]_vars

(* ---------------------------------------------------------------------- *)
(* The two topologies                                                      *)
(* ---------------------------------------------------------------------- *)
\* source -> filter 0 -> ... -> filter 9
ChainTopology ==
    {Edge(source, Filter(0), 0, 0)}
    \cup {Edge(Filter(i - 1), Filter(i), 0, 0) : i \in 1 .. (NumBands - 1)}

\* source -> EQ chain -> analyser -> destination
FlatTopology ==
    ChainTopology
    \cup {Edge(Filter(NumBands - 1), analyserNode, 0, 0),
          Edge(analyserNode, destination, 0, 0)}

\* source -> EQ chain -> splitter -> (inverter) -> merger -> analyser ->
\* destination
VocalCancellationTopology ==
    ChainTopology
    \cup {Edge(Filter(NumBands - 1), splitter, 0, 0),
          Edge(splitter, merger, 0, 0),
          Edge(splitter, merger, 1, 1),
          Edge(splitter, invertGain, 0, 0),
          Edge(splitter, invertGain, 1, 0),
          Edge(invertGain, merger, 0, 0),
          Edge(invertGain, merger, 0, 1),
          Edge(merger, analyserNode, 0, 0),
          Edge(analyserNode, destination, 0, 0)}

KaraokeNodes == {splitter, merger, invertGain}

(* ---------------------------------------------------------------------- *)
(* Claims                                                                  *)
(* ---------------------------------------------------------------------- *)

\* C1: once the graph is initialised, after every completed operation
\* (initialize, toggleVocalCancellation, setBandGain) the connection set is
\* exactly the flat chain or exactly the vocal-cancellation chain: never a
\* mixture, a strict subset or the empty set.
C1_ExactlyOneTopology ==
    Initialized => edges \in {FlatTopology, VocalCancellationTopology}

\* C1 witness: the vocal-cancellation chain is wired after a toggle and a
\* band-gain change
C1_Witness ==
    /\ Initialized
    /\ toggles >= 1
    /\ eqOps >= 1
    /\ edges = VocalCancellationTopology

\* C2: an audio thread that pulls a block while a toggle runs only ever sees
\* a whole topology, the flat or the vocal-cancellation one.
C2_AudioThreadSeesWholeTopology ==
    \A g \in rendered : g \in {FlatTopology, VocalCancellationTopology}

\* C3: in the vocal-cancellation topology a stereo input with equal left and
\* right samples gives zero on both output channels.
C3_CenterContentCancelled ==
    (Initialized /\ karaokeMode) =>
        \A x \in Samples : GraphOutput(edges, <<x, x>>) = <<0, 0>>

\* C4: two toggles from the initial flat topology give the initial
\* connection set again, with no edge to or from the splitter, inverter or
\* merger, and the vocal-cancellation flag false.
C4_DoubleToggleRestoresFlat ==
    (Initialized /\ toggles = 2) =>
        /\ edges = RunOps(InitOps, {})
        /\ \A e \in edges : e.from \notin KaraokeNodes /\ e.to \notin KaraokeNodes
        /\ karaokeMode = FALSE

\* C4 witness: the second toggle has completed
C4_Witness ==
    /\ Initialized
    /\ toggles = 2
    /\ edges = FlatTopology

\* C5: initAudioContext on an initialised graph creates no node, changes no
\* connection, no band gain and not the vocal-cancellation flag, in either
\* topology; it can only leave the context running.
C5_InitIdempotent ==
    [][(Initialized /\ InitAudioContext) =>
          /\ UNCHANGED <<nodeCount, edges, eqNodes, eqBands, karaokeMode>>
          /\ audioContext' = "running"]_vars

\* C5 witness: initAudioContext was called again with the vocal-cancellation
\* chain wired and a band gain set
C5_Witness ==
    /\ initCalls = 2
    /\ karaokeMode
    /\ edges = VocalCancellationTopology
    /\ \E i \in Bands : eqNodes[i] # 0

\* C6: after initialization and any sequence of band-gain changes, resets,
\* preset loads and toggles, each band's gain equals its live filter's gain.
C6_BandsMirrorFilters ==
    Initialized => \A i \in Bands : eqBands[i] = eqNodes[i]

\* C7: after setBandGain every band gain lies in [-12, 12]; a request
\* outside is clamped to the nearest bound.
C7_GainClamped ==
    /\ \A i \in Bands : eqBands[i] \in SliderMin .. SliderMax
    /\ \A i \in DOMAIN eqNodes : eqNodes[i] \in SliderMin .. SliderMax

\* C8: after initialization, handleEQChange(i, g) with g in [-12, 12] leaves
\* the live filter i at gain g.
C8_LiveGainIsRequested ==
    [][\A i \in Bands, g \in RequestGains :
          (Initialized /\ g \in SliderMin .. SliderMax /\ HandleEQChange(i, g))
              => eqNodes'[i] = g]_vars

\* C8 witness: a live filter holds a requested gain
C8_Witness ==
    /\ Initialized
    /\ eqOps >= 1
    /\ \E i \in Bands : eqNodes[i] = -12 /\ eqBands[i] = -12

\* C9: at most one frame callback is pending at any time.
C9_AtMostOneTick ==
    Cardinality(rafQueue) <= 1

\* C9 witness: a callback is pending after a tick has run and the props
\* have changed under a running loop
C9_Witness ==
    /\ Cardinality(rafQueue) = 1
    /\ lastTick.id # 0
    /\ effect.gen >= 2
    /\ effect.gen > lastTick.gen

\* C10: a callback scheduled by an effect run that has been stopped (props
\* changed, or unmounted) is neither pending nor ever run; a cancel of a
\* handle that is not pending, also a repeated one, leaves the loop intact:
\* an effect run that animates still has its own callback pending.
C10_StoppedTickNeverRuns ==
    /\ \A t \in rafQueue : mounted /\ effect.active /\ t.gen = effect.gen
    /\ lastTick.live
    /\ (effect.active /\ (effect.isPlaying \/ effect.mode \in IdleModes)) =>
          \E t \in rafQueue : t.id = animationRef

\* C10 witness: the loop is stopped with nothing pending: the callback
\* animationRef names was scheduled after the last tick, never ran, and was
\* cancelled by the cleanup and again by renderFrame
C10_Witness ==
    /\ effect.active
    /\ ~effect.isPlaying
    /\ effect.mode \notin IdleModes
    /\ rafQueue = {}
    /\ lastTick.id # 0
    /\ animationRef > lastTick.id

\* C11: when playback is stopped in Bars, Spectrum, Rings, Particles or DNA
\* the scheduler is suspended: no frame callback is pending, so none runs;
\* in Wave, Circle and Spiral the callback of the running effect stays
\* pending while playback is paused.
C11_SuspendedOnlyInStillModes ==
    (effect.active /\ ~effect.isPlaying) =>
        /\ effect.mode \in {"BARS", "SPECTRUM", "RINGS", "PARTICLES", "DNA"}
               => rafQueue = {}
        /\ effect.mode \in {"WAVE", "CIRCLE", "SPIRAL"}
               => \E t \in rafQueue : t.id = animationRef /\ t.gen = effect.gen

C11_Witness ==
    /\ effect.active
    /\ ~effect.isPlaying
    /\ effect.mode = "DNA"
    /\ rafQueue = {}
    /\ lastTick.id # 0
    /\ lastTick.gen + 1 = effect.gen

\* an effect run that gets as far as drawing: it has an analyser and its
\* renderFrame goes past the first test
Animating == effect.active /\ (effect.isPlaying \/ effect.mode \in IdleModes)

\* C12: a suspended scheduler (nothing pending) has a frame callback pending
\* again right after playback resumes, after the visual mode changes and
\* after the viewport is resized.
C12_SuspendedResumes ==
    [][(/\ mounted /\ effect.active /\ rafQueue = {}
        /\ mounted' /\ analyser' = analyser
        /\ \/ ~isPlaying /\ isPlaying'
           \/ mode' # mode
           \/ viewport' # viewport)
       => rafQueue' # {}]_vars

\* the element kinds each mode draws
PrimitiveKinds(m) ==
    CASE m = "BARS" -> {Kind("rect", "")}
      [] m = "WAVE" -> {Kind("g", "wave-petal")}
      [] m = "CIRCLE" -> {Kind("circle", "core"), Kind("line", "")}
      [] m \in {"SPIRAL", "PARTICLES", "RINGS"} -> {Kind("circle", "")}
      [] m = "SPECTRUM" -> {Kind("rect", "spectrum-bar"), Kind("defs", "")}
      [] m = "DNA" -> {Kind("circle", "dna-strand"), Kind("line", "dna-connector")}

\* C13: while the animation runs, also right after a mode switch, the scene
\* holds elements of the current mode's kinds and of no other mode's.
C13_SceneOfCurrentModeOnly ==
    Animating =>
        \A k \in ElementKinds : scene[k] # 0 <=> k \in PrimitiveKinds(effect.mode)

C13_Witness ==
    /\ Animating
    /\ effect.mode = "BARS"
    /\ effect.gen >= 2
    /\ lastTick.id # 0
    /\ lastTick.gen = effect.gen
    /\ scene[Kind("rect", "")] = BarCount
    /\ scene[Kind("circle", "")] = 0

\* C14: a frame callback whose render-mode code throws does not end the
\* loop: the effect run it belongs to still has a callback pending.
C14_LoopSurvivesRenderError ==
    (lastTick.threw /\ effect.active /\ lastTick.gen = effect.gen)
        => \E t \in rafQueue : t.gen = effect.gen

\* C15: while playback is paused, in every mode, a smoothed bin that is still
\* 1 or more has a frame callback pending that will feed it a zero target:
\* the spectrum is never left frozen at 1 or above.
C15_PausedBinsKeepDecaying ==
    (effect.active /\ ~effect.isPlaying
       /\ \E i \in DOMAIN prevData : prevData[i] >= Scale)
        => rafQueue # {}

\* C16: stopping playback in Bars, Spectrum, Rings, Particles or DNA leaves
\* the drawn primitives as they are.
C16_StoppedSceneStays ==
    [][(/\ effect.active /\ effect.isPlaying /\ effect.mode \notin IdleModes
        /\ mounted' /\ analyser' = analyser /\ mode' = mode /\ ~isPlaying')
       => scene' = scene]_vars

\* C17: every smoothed bin lies in [0, 255].
C17_SmoothedInRange ==
    \A i \in DOMAIN prevData : 0 <= prevData[i] /\ prevData[i] <= 255 * Scale

C17_Witness ==
    /\ lastTick.id # 0
    /\ \E i \in DOMAIN prevData : 0 < prevData[i] /\ prevData[i] < 255 * Scale
    /\ \E i \in DOMAIN dataArray : dataArray[i] = 255

\* C18: a frame callback moves every smoothed bin towards its target by
\* alpha times the distance; the target is the sampled magnitude when
\* playing and 0 when not; alpha is 0.8 in Spiral, 0.5 in Wave, 0.3 in the
\* other modes.
C18_SmoothingStep ==
    [][lastTick' # lastTick =>
        LET t == CHOOSE q \in rafQueue : q.id = lastTick'.id
            alpha == CASE t.mode = "SPIRAL" -> 8
                       [] t.mode = "WAVE" -> 5
                       [] OTHER -> 3
        IN  \A i \in DOMAIN prevData :
                LET target == IF t.isPlaying THEN dataArray'[i] * Scale ELSE 0
                IN  prevData'[i] =
                        prevData[i] + RoundDiv((target - prevData[i]) * alpha, 10)
      ]_vars

C18_Witness ==
    /\ effect.active
    /\ effect.mode = "WAVE"
    /\ ~effect.isPlaying
    /\ lastTick.id # 0
    /\ lastTick.gen = effect.gen
    /\ dataArray[0] = 255
    /\ prevData[0] > 0

\* the number of zero-target ticks after which a bin is below 1, by alpha
\* (in tenths)
TicksToSilence(alpha) ==
    CASE alpha = 3 -> 17
      [] alpha = 5 -> 8
      [] alpha = 8 -> 4

\* C19: fed zero targets, a bin that starts at 255 or less is below 1 after
\* 17 ticks with alpha 0.3, and for each alpha after a number of ticks that
\* depends on alpha alone.
C19_DecaysBelowOne ==
    LET alpha == CASE decay.mode = "SPIRAL" -> 8
                   [] decay.mode = "WAVE" -> 5
                   [] OTHER -> 3
    IN  decay.ticks >= TicksToSilence(alpha) => decay.value < Scale

C19_Witness ==
    /\ decay.start = 255 * Scale
    /\ decay.mode = "BARS"
    /\ decay.ticks = 17
    /\ decay.value < Scale

\* C20: whatever the sampled spectrum, Bars draws 64 primitives, Spectrum 96,
\* Rings 12, Spiral 700, Particles 150 and DNA 240 strand points with 15
\* connectors.
C20_PrimitiveCounts ==
    Animating =>
        /\ effect.mode = "BARS" => scene[Kind("rect", "")] = 64
        /\ effect.mode = "SPECTRUM" => scene[Kind("rect", "spectrum-bar")] = 96
        /\ effect.mode = "RINGS" => scene[Kind("circle", "")] = 12
        /\ effect.mode = "SPIRAL" => scene[Kind("circle", "")] = 700
        /\ effect.mode = "PARTICLES" => scene[Kind("circle", "")] = 150
        /\ effect.mode = "DNA" =>
              /\ scene[Kind("circle", "dna-strand")] = 240
              /\ scene[Kind("line", "dna-connector")] = 15

C20_Witness ==
    /\ Animating
    /\ effect.mode = "DNA"
    /\ lastTick.id # 0
    /\ lastTick.gen = effect.gen
    /\ dataArray[0] = 255
    /\ scene[Kind("line", "dna-connector")] = 15

\* C21: initAudioContext leaves each of the 10 filters at the gain of the
\* persisted band (eqBands starts as the saved settings, or flat when
\* nothing is saved, and is saved again at every change).
C21_InitFromPersistedBands ==
    [][(~Initialized /\ InitAudioContext)
          => \A i \in Bands : eqNodes'[i] = eqBands[i]]_vars

\* C22: handleEQChange with a band index outside 0..9 raises an error in its
\* caller and changes no gain, stored or live.
C22_OutOfRangeRejected ==
    [][\A index \in BandIndexes \ Bands, value \in RequestGains :
          HandleEQChange(index, value)
              => thrown' = "caller" /\ UNCHANGED <<eqBands, eqNodes>>]_vars

\* C23: before initAudioContext, toggleKaraokeMode and handleEQChange raise
\* no error and change neither the connections nor the flag nor any band
\* gain.
C23_CallsBeforeInitIgnored ==
    [][(/\ ~Initialized
        /\ \/ ToggleKaraokeMode
           \/ \E i \in Bands, g \in RequestGains : HandleEQChange(i, g))
          => /\ thrown' = "none"
             /\ UNCHANGED <<edges, eqNodes, eqBands, karaokeMode>>]_vars

Abs(x) == IF x < 0 THEN -x ELSE x

\* C24: in the vocal-cancellation topology a signal present in the left
\* input only leaves on the left output with the same magnitude, and a
\* signal in the right input only on the right output.
C24_HardPannedPreserved ==
    (Initialized /\ karaokeMode) =>
        \A x \in Samples :
            /\ Abs(GraphOutput(edges, <<x, 0>>)[1]) = Abs(x)
            /\ Abs(GraphOutput(edges, <<0, x>>)[2]) = Abs(x)

\* C26: handleEQChange(i, g) changes band i only: the connections, the
\* vocal-cancellation flag and every other band's stored and live gain stay.
C26_OnlyOneBandChanges ==
    [][\A i \in Bands, g \in RequestGains :
          HandleEQChange(i, g) =>
              /\ UNCHANGED <<edges, karaokeMode>>
              /\ DOMAIN eqBands' = DOMAIN eqBands
              /\ DOMAIN eqNodes' = DOMAIN eqNodes
              /\ \A j \in Bands \ {i} :
                    /\ eqBands'[j] = eqBands[j]
                    /\ j \in DOMAIN eqNodes => eqNodes'[j] = eqNodes[j]]_vars

\* C26 witness: one band was set while another keeps its saved gain and the
\* live filters beside it are still flat
C26_Witness ==
    /\ Initialized
    /\ karaokeMode
    /\ eqBands[0] = 7
    /\ eqBands[1] = 20
    /\ eqNodes[1] = 20
    /\ eqNodes[2] = 0

\* C27: playerState.karaokeMode is true exactly when the vocal-cancellation
\* topology is the one wired, after each completed handler.
C27_FlagMatchesTopology ==
    karaokeMode <=> edges = VocalCancellationTopology

\* C27 witness: the flag is set after a toggle, a band change and a repeated
\* initAudioContext
C27_Witness ==
    /\ karaokeMode
    /\ toggles = 1
    /\ initCalls = 2
    /\ eqOps = MaxEqOps
    /\ edges = VocalCancellationTopology

\* C28: a custom preset keeps the gains it was saved with whatever band
\* changes follow a load of it, so that loading it again gives them back.
C28_PresetsKeepTheirGains ==
    \A n \in DOMAIN userPresets : userPresets[n] = storedPresets[n]

\* one bin after no update or after one smoothing update
KeptOrSmoothed(before, after) ==
    \/ after = before
    \/ \E target \in Magnitudes \cup {0}, alpha \in {3, 5, 8} :
          after = before + RoundDiv((target * Scale - before) * alpha, 10)

\* C25: while the Visualizer is mounted, a smoothing buffer of the bin
\* count's length is carried over every tick, play/pause change and mode
\* change (each bin is kept, or smoothed from its old value, never zeroed);
\* a buffer of another length is replaced by a zero-filled one of the bin
\* count's length; the buffer has the bin count's length whenever a frame
\* callback runs.
C25_BufferPersists ==
    [][/\ (mounted /\ mounted' /\ Length(prevData) = BufferLength) =>
              /\ Length(prevData') = BufferLength
              /\ \A i \in DOMAIN prevData : KeptOrSmoothed(prevData[i], prevData'[i])
       /\ (Length(prevData) # BufferLength /\ Length(prevData') # 0) =>
              /\ Length(prevData') = BufferLength
              /\ \A i \in DOMAIN prevData' : KeptOrSmoothed(0, prevData'[i])
       /\ lastTick' # lastTick => Length(prevData) = BufferLength
      ]_vars

\* C25 witness: paused in Bars after a mode or play/pause change, the buffer
\* still holds what was smoothed before
C25_Witness ==
    /\ effect.active
    /\ effect.gen >= 2
    /\ ~effect.isPlaying
    /\ effect.mode = "BARS"
    /\ lastTick.id # 0
    /\ prevData[0] > Scale

\* C29: while the startup load of the saved library, playlists and markers
\* has not completed, no save of playlists or markers is under way.
C29_NoSaveBeforeLoadCompletes ==
    loadPc \in {"reading", "resolved"} =>
        \A k \in 1 .. Len(dbQueue) : dbQueue[k].kind # "write"

\* C30: at most one sleep-timer interval is active, the one the ref names;
\* when its callback runs at or after the end time, playback is paused and
\* the timer is cleared, so that no interval is left to fire.
C30_OneTimerClearedAtExpiry ==
    [][/\ Cardinality(intervals') <= 1
       /\ \A t \in intervals' : t.id = sleepTimerIntervalRef'
       /\ (IntervalFires /\ \E t \in intervals : now >= t.endTime) =>
              /\ expiries' = expiries + 1
              /\ ~audioPlaying'
              /\ intervals' = {}
              /\ sleepTimerIntervalRef' = 0
              /\ sleepTimerEndTime' = 0
      ]_vars

\* C30 witness: a timer has expired after a second timer was started, and
\* nothing is left running
C30_Witness ==
    /\ expiries >= 1
    /\ nextTimerId >= 3
    /\ intervals = {}
    /\ sleepTimerIntervalRef = 0
    /\ ~audioPlaying
    /\ now >= 1

====
